---- MODULE Spec2Model ----
(***************************************************************************)
(* Model of the Shopify scraper agents: the paginated fetch loop, the      *)
(* connectivity probe, the pipeline driver (main / BaseAgent.run), the     *)
(* flattener, the CSV append sink and the MongoDB upsert sink of           *)
(* src/shopify_api_agent.py, src/base_agent.py and src/main.py.            *)
(***************************************************************************)
EXTENDS Integers, Sequences, FiniteSets, TLC

VARIABLES
    mode,           \* who drives the pipeline: "main" (main.py) or "run" (BaseAgent.run called directly)
    pc,             \* position of the driver / of the function under study
    should_stop,    \* ShopifyAPIAgent._should_stop
    probeLog,       \* responses to the GETs issued by connect(), in order
    connectLog,     \* return values of the connect() calls, in order
    fetchLog,       \* page requests issued by fetch_products: <<[page, resp]>> in order
    page,           \* fetch_products: local page
    products,       \* fetch_products: local products (the accumulator)
    raised,         \* TRUE when the function under study left by an exception
    raw_data,       \* BaseAgent.run: raw_data
    processed_data, \* BaseAgent.run: processed_data
    exitCode,       \* main: -1 while running, else the process exit code
    csvFile,        \* data/shopify_products.csv: None (absent) or Some(sequence of lines)
    csvCalls,       \* save_to_csv calls so far: <<[data, io]>> in order
    jsonFile,       \* output of save_json: None (absent) or Some(data)
    batch,          \* flatten_data: argument all_products_data
    flat,           \* flatten_data: result [rows, raised]
    collection,     \* MongoDB collection shopify_scraper.products: a set of documents
    writes,         \* store_product_in_mongodb calls so far: <<[store, product, ok]>>
    clock,          \* datetime.utcnow(), as a counter
    batchCalls,     \* store_products_in_mongodb calls so far: <<[store_url, products, first, last, count]>>
    stageLog,       \* stages of the pipeline entered so far, in order
    stopChecks,     \* number of times fetch_products has read _should_stop
    writers,        \* pipelines inside save_to_csv at the same time: their position and locals
    scrapeLimit,    \* scrape_products: argument limit (None or Some(n))
    scrapeLog,      \* page requests issued by scrape_products: <<[page, resp, count]>> in order
    scrapePage,     \* scrape_products: local page
    scrapeProducts, \* scrape_products: local products
    has_next_page   \* scrape_products: local has_next_page

vars == <<mode, pc, should_stop, probeLog, connectLog, fetchLog, page, products,
          raised, raw_data, processed_data, exitCode, csvFile, csvCalls, jsonFile,
          batch, flat, collection, writes, clock, batchCalls, stageLog, stopChecks,
          writers, scrapeLimit, scrapeLog, scrapePage, scrapeProducts, has_next_page>>

driverVars  == <<mode, should_stop, probeLog, connectLog, fetchLog, page, products,
                 raw_data, processed_data, exitCode, jsonFile, stageLog, stopChecks>>
csvVars     == <<csvFile, csvCalls, writers>>
flattenVars == <<batch, flat>>
mongoVars   == <<collection, writes, clock, batchCalls>>
scrapeVars  == <<scrapeLimit, scrapeLog, scrapePage, scrapeProducts, has_next_page>>

(***************************************************************************)
(* Bounds of the model.                                                    *)
(***************************************************************************)
MaxFullPages == 2   \* the server answers at most this many full pages in a session
MaxBatch     == 5   \* longest batch handed to flatten_data
MaxCalls     == 3   \* save_to_csv calls in a run of the CSV sink
MaxRows      == 2   \* rows handed to one save_to_csv call
MaxWrites    == 3   \* store_product_in_mongodb calls in a run of the document sink
MaxProbes    == 2   \* connect() calls in a run of the probe
MaxBatchCalls == 2  \* store_products_in_mongodb calls in a run of the document sink

(***************************************************************************)
(* Python values: None and a present value; dict.get(key[, default]).      *)
(***************************************************************************)
None == <<>>
Some(v) == <<v>>
Get(opt, default) == IF opt = None THEN default ELSE opt[1]

(***************************************************************************)
(* flatten_data (shopify_api_agent.py 321-386).                            *)
(*                                                                         *)
(* A product is a dict (isdict) whose keys id, title, handle, tags,        *)
(* variants, images are each None when the key is missing.  tags, when     *)
(* present, is JSON null or a list of strings.  A variant is a dict with   *)
(* the keys id, title, sku, price, compare_at_price, available,            *)
(* created_at, updated_at (None when missing), or not a dict at all.       *)
(* The product keys vendor, product_type, created_at, updated_at,          *)
(* published_at and body_html are read exactly like title and handle       *)
(* (product.get(key, '')) and are represented by those two.                *)
(***************************************************************************)
RECURSIVE Join(_)
Join(strs) ==
    IF strs = <<>> THEN ""
    ELSE IF Len(strs) = 1 THEN strs[1]
    ELSE strs[1] \o ", " \o Join(Tail(strs))

RECURSIVE JoinSrcs(_)
JoinSrcs(imgs) ==
    IF imgs = <<>> THEN ""
    ELSE LET rest == JoinSrcs(Tail(imgs))
             src  == Get(Head(imgs).src, "")
         IN  IF src = "" THEN rest
             ELSE IF rest = "" THEN src
             ELSE src \o "|" \o rest

first_image_src(product) ==
    IF Get(product.images, <<>>) # <<>> THEN product.images[1][1].src ELSE None

all_image_srcs(product) == JoinSrcs(Get(product.images, <<>>))

\* ', '.join(product.get('tags', [])) raises TypeError on a null tags value
TagsRaise(product) == product.tags # None /\ product.tags[1].null

TagsJoined(product) == Join(Get(product.tags, [null |-> FALSE, list |-> <<>>]).list)

\* a flattener that takes the placeholder branch only when the key is missing
HasNoVariantsKeyOnly(product) == product.variants = None

\* not product.get('variants'): the key is missing or the list is empty
HasNoVariants(product) == Get(product.variants, <<>>) = <<>>

NoVariantRow(product, store_domain) ==
    [store_domain       |-> store_domain,
     product_id         |-> product.id,
     title              |-> Get(product.title, ""),
     handle             |-> Get(product.handle, ""),
     tags               |-> TagsJoined(product),
     variant_id         |-> None,
     variant_title      |-> None,
     sku                |-> None,
     price              |-> None,
     compare_at_price   |-> None,
     available          |-> None,
     variant_created_at |-> None,
     variant_updated_at |-> None,
     image_src          |-> first_image_src(product),
     all_image_srcs     |-> all_image_srcs(product)]

VariantRow(product, variant, store_domain) ==
    [store_domain       |-> store_domain,
     product_id         |-> product.id,
     title              |-> Get(product.title, ""),
     handle             |-> Get(product.handle, ""),
     tags               |-> TagsJoined(product),
     variant_id         |-> variant.id,
     variant_title      |-> Some(Get(variant.title, "")),
     sku                |-> Some(Get(variant.sku, "")),
     price              |-> Some(Get(variant.price, "")),
     compare_at_price   |-> Some(Get(variant.compare_at_price, "")),
     available          |-> Some(Get(variant.available, FALSE)),
     variant_created_at |-> Some(Get(variant.created_at, "")),
     variant_updated_at |-> Some(Get(variant.updated_at, "")),
     image_src          |-> first_image_src(product),
     all_image_srcs     |-> all_image_srcs(product)]

\* a flattener that walks the variants from the last to the first
RECURSIVE VariantRowsReversed(_, _, _)
VariantRowsReversed(product, variants, store_domain) ==
    IF variants = <<>> THEN [rows |-> <<>>, ok |-> TRUE]
    ELSE IF ~variants[Len(variants)].isdict THEN [rows |-> <<>>, ok |-> FALSE]
    ELSE LET rest == VariantRowsReversed(product, SubSeq(variants, 1, Len(variants) - 1),
                                         store_domain)
         IN  [rows |-> <<VariantRow(product, variants[Len(variants)], store_domain)>>
                       \o rest.rows,
              ok   |-> rest.ok]

\* the inner loop over the variants: a row is appended for each variant in
\* turn; a variant that is not a dict raises (variant.get) and ends the
\* product, the rows appended before it stay in flattened_rows
RECURSIVE VariantRows(_, _, _)
VariantRows(product, variants, store_domain) ==
    IF variants = <<>> THEN [rows |-> <<>>, ok |-> TRUE]
    ELSE IF ~Head(variants).isdict THEN [rows |-> <<>>, ok |-> FALSE]
    ELSE LET rest == VariantRows(product, Tail(variants), store_domain)
         IN  [rows |-> <<VariantRow(product, Head(variants), store_domain)>> \o rest.rows,
              ok   |-> rest.ok]

\* one iteration of the loop over the products.  outcome: "ok", "skipped"
\* (the except clause logged and continued) or "abort" (the except clause
\* itself raised: product.get on a value that is not a dict)
FlattenProduct(product, store_domain) ==
    IF ~product.isdict THEN [rows |-> <<>>, outcome |-> "abort"]
    ELSE IF TagsRaise(product) THEN [rows |-> <<>>, outcome |-> "skipped"]
    ELSE IF HasNoVariants(product)
         THEN [rows |-> <<NoVariantRow(product, store_domain)>>, outcome |-> "ok"]
    ELSE LET r == VariantRows(product, product.variants[1], store_domain)
         IN  [rows |-> r.rows, outcome |-> IF r.ok THEN "ok" ELSE "skipped"]

\* the loop over all_products_data[lo..hi], in order; an exception that
\* leaves the loop ends it with the rows lost to the caller
RECURSIVE FlattenRange(_, _, _, _)
FlattenRange(all_products_data, store_domain, lo, hi) ==
    IF lo > hi THEN [rows |-> <<>>, raised |-> FALSE]
    ELSE IF lo = hi
         THEN LET r == FlattenProduct(all_products_data[lo], store_domain)
              IN  [rows |-> r.rows, raised |-> r.outcome = "abort"]
    ELSE LET mid == (lo + hi) \div 2
             l   == FlattenRange(all_products_data, store_domain, lo, mid)
         IN  IF l.raised THEN l
             ELSE LET r == FlattenRange(all_products_data, store_domain, mid + 1, hi)
                  IN  [rows |-> l.rows \o r.rows, raised |-> r.raised]

flatten_data(all_products_data, store_domain) ==
    LET r == FlattenRange(all_products_data, store_domain, 1, Len(all_products_data))
    IN  IF r.raised THEN [rows |-> <<>>, raised |-> TRUE] ELSE r

(***************************************************************************)
(* Inputs of flatten_data: the products and variants the batches are       *)
(* drawn from.                                                             *)
(***************************************************************************)
StoreDomain == "shop.example"

MkVariant(id, title, sku, price, cmp, avail, created, updated) ==
    [isdict |-> TRUE, id |-> id, title |-> title, sku |-> sku, price |-> price,
     compare_at_price |-> cmp, available |-> avail,
     created_at |-> created, updated_at |-> updated]

VariantA == MkVariant(Some(11), Some("Small"), Some("SKU-S"), Some("9.99"),
                      Some("12.00"), Some(TRUE), Some("2024-01-01"), Some("2024-02-01"))
VariantB == MkVariant(Some(12), Some("Large"), Some("SKU-L"), Some("19.99"),
                      Some("24.00"), Some(FALSE), Some("2024-01-02"), Some("2024-02-02"))
\* a variant dict with no key but id: every .get falls back to its default
VariantBare == MkVariant(Some(13), None, None, None, None, None, None, None)
\* a variant entry that is not a dict (JSON null, a string, ...)
VariantNotDict == [isdict |-> FALSE, id |-> None, title |-> None, sku |-> None,
                   price |-> None, compare_at_price |-> None, available |-> None,
                   created_at |-> None, updated_at |-> None]

MkProduct(id, title, tags, variants, images) ==
    [isdict |-> TRUE, id |-> id, title |-> title, handle |-> title,
     tags |-> tags, variants |-> variants, images |-> images]

TagList(l) == Some([null |-> FALSE, list |-> l])
TagsNull   == Some([null |-> TRUE, list |-> <<>>])

Image(src) == [src |-> src]

ProductTwoVariants ==
    MkProduct(Some(1), Some("shirt"), TagList(<<"a", "b">>), Some(<<VariantA, VariantB>>),
              Some(<<Image(Some("a")), Image(Some("")), Image(Some("b"))>>))
ProductOneVariant ==
    MkProduct(Some(2), Some("hat"), TagList(<<>>), Some(<<VariantBare>>), Some(<<Image(None)>>))
ProductEmptyVariants ==
    MkProduct(Some(3), Some("mug"), TagList(<<"c">>), Some(<<>>), Some(<<Image(Some("m"))>>))
ProductNoVariantsKey ==
    MkProduct(Some(4), None, None, None, None)
ProductNoId ==
    MkProduct(None, Some("sock"), TagList(<<>>), Some(<<VariantA>>), None)
ProductTagsNull ==
    MkProduct(Some(5), Some("belt"), TagsNull, Some(<<VariantA>>), None)
ProductBadVariant ==
    MkProduct(Some(6), Some("scarf"), TagList(<<>>), Some(<<VariantB, VariantNotDict>>), None)
\* an entry of the products array that is not a dict
ProductNotDict ==
    [isdict |-> FALSE, id |-> None, title |-> None, handle |-> None,
     tags |-> None, variants |-> None, images |-> None]

Products == {ProductTwoVariants, ProductOneVariant, ProductEmptyVariants,
             ProductNoVariantsKey, ProductNoId, ProductTagsNull,
             ProductBadVariant, ProductNotDict}

SeqsUpTo(S, n) == UNION {[1..k -> S] : k \in 0..n}

Batches == SeqsUpTo(Products, MaxBatch)

(***************************************************************************)
(* Values of the variables a specification does not use.                   *)
(***************************************************************************)
DriverIdle ==
    /\ mode = "none" /\ should_stop = FALSE /\ probeLog = <<>> /\ connectLog = <<>>
    /\ fetchLog = <<>> /\ page = 1 /\ products = <<>> /\ raw_data = <<>>
    /\ processed_data = <<>> /\ exitCode = -1 /\ jsonFile = None
    /\ stageLog = <<>> /\ stopChecks = 0
CsvIdle     == csvFile = None /\ csvCalls = <<>> /\ writers = <<>>
FlattenIdle == batch = <<>> /\ flat = [rows |-> <<>>, raised |-> FALSE]
MongoIdle   == collection = {} /\ writes = <<>> /\ clock = 0 /\ batchCalls = <<>>
ScrapeIdle  ==
    /\ scrapeLimit = None /\ scrapeLog = <<>> /\ scrapePage = 1
    /\ scrapeProducts = <<>> /\ has_next_page = TRUE

(***************************************************************************)
(* SpecFlatten: flatten_data applied to every batch.                       *)
(***************************************************************************)
InitFlatten ==
    /\ pc = "flatten_call" /\ raised = FALSE
    /\ batch \in Batches
    /\ flat = [rows |-> <<>>, raised |-> FALSE]
    /\ DriverIdle /\ CsvIdle /\ MongoIdle /\ ScrapeIdle

FlattenData ==
    /\ pc = "flatten_call"
    /\ flat' = flatten_data(batch, StoreDomain)
    /\ raised' = flat'.raised
    /\ pc' = "flatten_done"
    /\ UNCHANGED <<batch, driverVars, csvVars, mongoVars, scrapeVars>>

NextFlatten == FlattenData

SpecFlatten == InitFlatten /\ [][NextFlatten]_vars

(***************************************************************************)
(* Claims about flatten_data.                                              *)
(***************************************************************************)
\* a product whose processing raises nothing: a dict whose tags are not
\* null and whose variants are all dicts
WellFormed(p) ==
    /\ p.isdict
    /\ ~(p.tags # None /\ p.tags[1].null)
    /\ \A j \in 1..Len(Get(p.variants, <<>>)) : p.variants[1][j].isdict

VariantCount(p) == Len(Get(p.variants, <<>>))

\* number of rows flatten_data has appended before it reaches b[i]
RECURSIVE RowsBefore(_, _)
RowsBefore(b, i) ==
    IF i <= 1 THEN 0
    ELSE RowsBefore(b, i - 1) + Len(FlattenProduct(b[i - 1], StoreDomain).rows)

ProductFieldsOf(row) ==
    <<row.store_domain, row.product_id, row.title, row.handle, row.tags,
      row.image_src, row.all_image_srcs>>

VariantFieldsOf(row) ==
    <<row.variant_id, row.variant_title, row.sku, row.price, row.compare_at_price,
      row.available, row.variant_created_at, row.variant_updated_at>>

FlattenReturned == pc = "flatten_done" /\ ~flat.raised

\* C8: a product with k >= 1 variants gets exactly k rows, one per variant
\* in variant order, all with the same product-level fields (those of the
\* product) and each with its own variant's fields; the rows of the
\* products follow each other in product order.
C8_OneRowPerVariant ==
    FlattenReturned =>
        /\ Len(flat.rows) = RowsBefore(batch, Len(batch) + 1)
        /\ \A i \in 1..Len(batch) :
            LET p   == batch[i]
                k   == VariantCount(p)
                off == RowsBefore(batch, i)
            IN  (WellFormed(p) /\ k >= 1) =>
                    /\ RowsBefore(batch, i + 1) = off + k
                    /\ off + k <= Len(flat.rows)
                    /\ \A j \in 1..k :
                        LET row == flat.rows[off + j]
                            v   == p.variants[1][j]
                        IN  /\ ProductFieldsOf(row) = ProductFieldsOf(flat.rows[off + 1])
                            /\ row.store_domain = StoreDomain
                            /\ row.product_id = p.id
                            /\ row.title = Get(p.title, "")
                            /\ row.handle = Get(p.handle, "")
                            /\ VariantFieldsOf(row) =
                                 <<v.id, Some(Get(v.title, "")), Some(Get(v.sku, "")),
                                   Some(Get(v.price, "")), Some(Get(v.compare_at_price, "")),
                                   Some(Get(v.available, FALSE)), Some(Get(v.created_at, "")),
                                   Some(Get(v.updated_at, ""))>>

\* a product with two different variants flattened after another product that has rows
C8_Witness ==
    /\ FlattenReturned
    /\ \E i \in 2..Len(batch) :
        /\ batch[i] = ProductTwoVariants
        /\ RowsBefore(batch, i) >= 1
        /\ flat.rows[RowsBefore(batch, i) + 1].variant_id = VariantA.id
        /\ flat.rows[RowsBefore(batch, i) + 2].variant_id = VariantB.id

\* C9: a product with no variants (key missing or list empty) gets exactly
\* one row, and the eight variant fields of that row are null.
C9_PlaceholderRow ==
    FlattenReturned =>
        \A i \in 1..Len(batch) :
            LET p   == batch[i]
                off == RowsBefore(batch, i)
            IN  (WellFormed(p) /\ VariantCount(p) = 0) =>
                    /\ RowsBefore(batch, i + 1) = off + 1
                    /\ off + 1 <= Len(flat.rows)
                    /\ flat.rows[off + 1].product_id = p.id
                    /\ VariantFieldsOf(flat.rows[off + 1]) =
                         <<None, None, None, None, None, None, None, None>>

\* both kinds of variant-less product flattened in one batch
C9_Witness ==
    /\ FlattenReturned
    /\ \E i, j \in 1..Len(batch) :
        /\ batch[i] = ProductEmptyVariants
        /\ batch[j] = ProductNoVariantsKey
        /\ flat.rows[RowsBefore(batch, i) + 1].variant_id = None
        /\ flat.rows[RowsBefore(batch, j) + 1].variant_id = None

\* a malformed product in the sense of the claim: one that lacks an id, or
\* one whose processing raises
Malformed(p) == ~WellFormed(p) \/ p.id = None

RECURSIVE RowsOfWellFormed(_)
RowsOfWellFormed(b) ==
    IF b = <<>> THEN <<>>
    ELSE (IF Malformed(Head(b)) THEN <<>> ELSE FlattenProduct(Head(b), StoreDomain).rows)
         \o RowsOfWellFormed(Tail(b))

\* C10: a malformed product (for instance one without an id) is skipped and
\* the rest of the batch is flattened: flatten_data returns exactly the rows
\* of the well-formed products, in order.
C10_MalformedSkipped ==
    pc = "flatten_done" => (~flat.raised /\ flat.rows = RowsOfWellFormed(batch))

(***************************************************************************)
(* HTTP responses.  net: the transport delivered a response ("ok"), failed *)
(* ("error") or timed out ("timeout").  body: "products" is a JSON object  *)
(* with a products array of n entries, "nokey" a JSON object without that  *)
(* key, "nonobject" valid JSON that is not an object, "malformed" a body   *)
(* that does not parse.                                                    *)
(***************************************************************************)
limit == 250

Statuses  == {200, 201, 300, 404, 500}
PageSizes == {0, 1, 120, limit}

NetFailures == [net : {"error", "timeout"}, status : {0}, body : {"none"}, n : {0}]

HttpResponses ==
    [net : {"ok"}, status : Statuses, body : {"products"}, n : PageSizes]
    \cup [net : {"ok"}, status : Statuses, body : {"nokey", "nonobject", "malformed"}, n : {0}]

Responses == NetFailures \cup HttpResponses

JsonParses(body)     == body \in {"products", "nokey", "nonobject"}
IsJsonObject(body)   == body \in {"products", "nokey"}
HasProductsKey(body) == body = "products"

\* response.raise_for_status(): HTTPError for 4xx and 5xx
raise_for_status(resp) == resp.status >= 400 /\ resp.status < 600

(***************************************************************************)
(* connect (shopify_api_agent.py 193-248): TRUE or FALSE, never raises.    *)
(***************************************************************************)
\* a probe that accepts every status raise_for_status lets through
connect_lenient(resp) ==
    IF resp.net # "ok" THEN FALSE
    ELSE IF raise_for_status(resp) THEN FALSE
    ELSE IF ~JsonParses(resp.body) THEN FALSE
    ELSE IF ~IsJsonObject(resp.body) THEN FALSE
    ELSE IF ~HasProductsKey(resp.body) THEN FALSE
    ELSE TRUE

connect(resp) ==
    IF resp.net # "ok" THEN FALSE                 \* except RequestException
    ELSE IF resp.status # 200 THEN FALSE
    ELSE IF ~JsonParses(resp.body) THEN FALSE     \* except json.JSONDecodeError
    ELSE IF ~IsJsonObject(resp.body) THEN FALSE
    ELSE IF ~HasProductsKey(resp.body) THEN FALSE
    ELSE TRUE

\* one call of connect(): a single GET, answered by resp
ConnectCall(resp) ==
    /\ probeLog' = Append(probeLog, resp)
    /\ connectLog' = Append(connectLog, connect(resp))

(***************************************************************************)
(* fetch_products (shopify_api_agent.py 265-319).  A product of the server *)
(* is named by its position in the catalogue; PageProducts(pg, n) is the   *)
(* products array of page pg when it holds n entries.                      *)
(***************************************************************************)
PageProducts(pg, n) == [i \in 1..n |-> (pg - 1) * limit + i]

\* a loop that also stops on a page of exactly limit entries
IsShortPageOrFull(n) == n <= limit

\* len(data["products"]) < limit
IsShortPage(n) == n < limit

\* a loop that takes a page of exactly 250 products for the last one
FetchOutcomeStopsAtFullPage(resp) ==
    IF resp.net # "ok" THEN "error"
    ELSE IF raise_for_status(resp) THEN "error"
    ELSE IF ~JsonParses(resp.body) THEN "error"
    ELSE IF ~IsJsonObject(resp.body) \/ ~HasProductsKey(resp.body) THEN "invalid"
    ELSE IF resp.n = 0 THEN "empty"
    ELSE IF resp.n <= limit THEN "last"
    ELSE "more"

\* what one request does to the loop: "error" (an except clause, break),
\* "invalid" (not a dict or no products key, break), "empty" (break),
\* "last" (extend, break) or "more" (extend, page += 1)
FetchOutcome(resp) ==
    IF resp.net # "ok" THEN "error"
    ELSE IF raise_for_status(resp) THEN "error"
    ELSE IF ~JsonParses(resp.body) THEN "error"
    ELSE IF ~IsJsonObject(resp.body) \/ ~HasProductsKey(resp.body) THEN "invalid"
    ELSE IF resp.n = 0 THEN "empty"
    ELSE IF IsShortPage(resp.n) THEN "last"
    ELSE "more"

\* the server has at most MaxFullPages full pages
ResponsesAt(pg) ==
    IF pg <= MaxFullPages THEN Responses
    ELSE {r \in Responses : ~(r.body = "products" /\ r.n >= limit)}

\* a loop whose top does not look at the stop flag
FetchCheckStopIgnoringFlag ==
    /\ pc = "fetch_top"
    /\ pc' = "fetch_request"
    /\ stopChecks' = stopChecks + 1
    /\ UNCHANGED stageLog
    /\ UNCHANGED <<mode, should_stop, probeLog, connectLog, fetchLog, page, products,
                   raised, raw_data, processed_data, exitCode, jsonFile,
                   csvVars, flattenVars, mongoVars, scrapeVars>>

\* top of the while loop: if self._should_stop: break
FetchCheckStop ==
    /\ pc = "fetch_top"
    /\ pc' = IF should_stop THEN "fetch_return" ELSE "fetch_request"
    /\ stopChecks' = stopChecks + 1
    /\ UNCHANGED stageLog
    /\ UNCHANGED <<mode, should_stop, probeLog, connectLog, fetchLog, page, products,
                   raised, raw_data, processed_data, exitCode, jsonFile,
                   csvVars, flattenVars, mongoVars, scrapeVars>>

\* the rest of the iteration: the GET of the current page and its handling
FetchRequest(resp) ==
    /\ pc = "fetch_request"
    /\ fetchLog' = Append(fetchLog, [page |-> page, resp |-> resp])
    /\ LET o == FetchOutcome(resp)
       IN  /\ products' = IF o \in {"last", "more"}
                          THEN products \o PageProducts(page, resp.n)
                          ELSE products
           /\ page' = IF o = "more" THEN page + 1 ELSE page
           /\ pc' = IF o = "more" THEN "fetch_top" ELSE "fetch_return"
    /\ UNCHANGED <<stageLog, stopChecks>>
    /\ UNCHANGED <<mode, should_stop, probeLog, connectLog, raised, raw_data,
                   processed_data, exitCode, jsonFile, csvVars, flattenVars, mongoVars, scrapeVars>>

\* return products; crawl() copies them into all_products and returns them
\* to BaseAgent.run
CrawlReturn ==
    /\ pc = "fetch_return"
    /\ raw_data' = products
    /\ pc' = "extract"
    /\ UNCHANGED <<stageLog, stopChecks>>
    /\ UNCHANGED <<mode, should_stop, probeLog, connectLog, fetchLog, page, products,
                   raised, processed_data, exitCode, jsonFile,
                   csvVars, flattenVars, mongoVars, scrapeVars>>

\* a supervising caller sets the stop flag while the agent runs
RequestStop ==
    /\ pc \in {"main_connect", "run_connect", "fetch_top", "fetch_request"}
    /\ ~should_stop
    /\ should_stop' = TRUE
    /\ UNCHANGED <<stageLog, stopChecks>>
    /\ UNCHANGED <<mode, pc, probeLog, connectLog, fetchLog, page, products,
                   raised, raw_data, processed_data, exitCode, jsonFile,
                   csvVars, flattenVars, mongoVars, scrapeVars>>

(***************************************************************************)
(* save_to_csv (shopify_api_agent.py 388-404).  io: "ok", "open_fails"     *)
(* (makedirs or open raises) or "write_fails" (the file was opened, and so *)
(* created, but nothing reached it).  Every error is logged and swallowed. *)
(***************************************************************************)
HeaderLine   == [kind |-> "header", row |-> None]
RowLine(row) == [kind |-> "row", row |-> Some(row)]
RowLines(data) == [i \in 1..Len(data) |-> RowLine(data[i])]

IoOutcomes == {"ok", "open_fails", "write_fails"}

\* a sink that writes the header on every call
save_to_csv_always_header(file, data, io) ==
    IF io = "open_fails" THEN file
    ELSE IF io = "write_fails" THEN Some(Get(file, <<>>))
    ELSE Some(Get(file, <<>>) \o <<HeaderLine>> \o RowLines(data))

save_to_csv(file, data, io) ==
    IF io = "open_fails" THEN file
    ELSE LET file_exists == file # None          \* os.path.isfile(filename)
             opened      == Get(file, <<>>)      \* open(filename, 'a') creates the file
         IN  IF io = "write_fails" THEN Some(opened)
             ELSE Some(opened
                       \o (IF ~file_exists \/ Len(opened) = 0 THEN <<HeaderLine>> ELSE <<>>)
                       \o RowLines(data))

\* one call of save_to_csv on data/shopify_products.csv
SaveToCsvCall(data, io) ==
    /\ csvFile' = save_to_csv(csvFile, data, io)
    /\ csvCalls' = Append(csvCalls, [data |-> data, io |-> io])
    /\ UNCHANGED writers

(***************************************************************************)
(* The pipeline driver: main (main.py 24-38) and BaseAgent.run             *)
(* (base_agent.py 62-73) with the agent's crawl and extract_data.          *)
(***************************************************************************)
ProbeOk     == [net |-> "ok", status |-> 200, body |-> "products", n |-> 1]
ProbeFailed == [net |-> "ok", status |-> 404, body |-> "malformed", n |-> 0]
DriverProbes == {ProbeOk, ProbeFailed}

\* the dict the server sends for the product at position id of the catalogue
ProductOf(id) == MkProduct(Some(id), Some("item"), TagList(<<>>), Some(<<VariantA>>), None)

InitDriver ==
    /\ mode \in {"main", "run"}
    /\ pc = IF mode = "main" THEN "main_connect" ELSE "run_connect"
    /\ should_stop = FALSE /\ probeLog = <<>> /\ connectLog = <<>> /\ fetchLog = <<>>
    /\ page = 1 /\ products = <<>> /\ raised = FALSE
    /\ raw_data = <<>> /\ processed_data = <<>> /\ exitCode = -1 /\ jsonFile = None
    /\ stageLog = <<>> /\ stopChecks = 0
    /\ CsvIdle /\ FlattenIdle /\ MongoIdle /\ ScrapeIdle

\* main: if not agent.connect(): sys.exit(1)
MainConnect(resp) ==
    /\ pc = "main_connect"
    /\ ConnectCall(resp)
    /\ IF connect(resp)
       THEN pc' = "run_connect" /\ exitCode' = exitCode
       ELSE pc' = "exited" /\ exitCode' = 1
    /\ stageLog' = Append(stageLog, "connect")
    /\ UNCHANGED stopChecks
    /\ UNCHANGED <<mode, should_stop, fetchLog, page, products, raised, raw_data,
                   processed_data, jsonFile, csvVars, flattenVars, mongoVars, scrapeVars>>

\* run: self.connect() (the result is dropped), then crawl() enters
\* fetch_products
RunConnect(resp) ==
    /\ pc = "run_connect"
    /\ ConnectCall(resp)
    /\ page' = 1
    /\ products' = <<>>
    /\ pc' = "fetch_top"
    /\ stageLog' = stageLog \o <<"connect", "crawl">>
    /\ UNCHANGED stopChecks
    /\ UNCHANGED <<mode, should_stop, fetchLog, raised, raw_data, processed_data,
                   exitCode, jsonFile, csvVars, flattenVars, mongoVars, scrapeVars>>

\* run: processed_data = self.extract_data(raw_data)
ExtractData(io) ==
    /\ pc = "extract"
    /\ LET fl == flatten_data([i \in 1..Len(raw_data) |-> ProductOf(raw_data[i])],
                              StoreDomain)
       IN  IF raw_data = <<>>
           THEN processed_data' = <<>> /\ UNCHANGED csvVars
           ELSE IF fl.raised
           THEN processed_data' = <<>> /\ UNCHANGED csvVars
           ELSE IF fl.rows = <<>>
           THEN processed_data' = raw_data /\ UNCHANGED csvVars
           ELSE SaveToCsvCall(fl.rows, io) /\ processed_data' = raw_data
    /\ pc' = "save_json"
    /\ stageLog' = Append(stageLog, "extract_data")
    /\ UNCHANGED stopChecks
    /\ UNCHANGED <<mode, should_stop, probeLog, connectLog, fetchLog, page, products,
                   raised, raw_data, exitCode, jsonFile, flattenVars, mongoVars, scrapeVars>>

\* run: self.save_json(processed_data, output_filename); an error is
\* re-raised by save_json and by run, and main turns it into exit code 1
SaveJson(io) ==
    /\ pc = "save_json"
    /\ io \in {"ok", "open_fails"}
    /\ jsonFile' = IF io = "ok" THEN Some(processed_data) ELSE jsonFile
    /\ raised' = (io # "ok")
    /\ exitCode' = IF mode = "main" THEN (IF io = "ok" THEN 0 ELSE 1) ELSE exitCode
    /\ pc' = "done"
    /\ stageLog' = Append(stageLog, "save_json")
    /\ UNCHANGED stopChecks
    /\ UNCHANGED <<mode, should_stop, probeLog, connectLog, fetchLog, page, products,
                   raw_data, processed_data, csvVars, flattenVars, mongoVars, scrapeVars>>

\* the answers of the store to the page requests of a pipeline run
Page(n) == [net |-> "ok", status |-> 200, body |-> "products", n |-> n]
DriverResponses ==
    {Page(0), Page(120), Page(limit),
     [net |-> "ok", status |-> 500, body |-> "malformed", n |-> 0],
     [net |-> "error", status |-> 0, body |-> "none", n |-> 0]}

Init == InitDriver

Next ==
    \/ \E resp \in DriverProbes : MainConnect(resp)
    \/ \E resp \in DriverProbes : RunConnect(resp)
    \/ FetchCheckStop
    \/ \E resp \in ResponsesAt(page) \cap DriverResponses : FetchRequest(resp)
    \/ CrawlReturn
    \/ RequestStop
    \/ \E io \in IoOutcomes : ExtractData(io)
    \/ \E io \in IoOutcomes : SaveJson(io)

Spec == Init /\ [][Next]_vars

(***************************************************************************)
(* SpecFetch: one fetch_products session (called by crawl) against every   *)
(* server behaviour, with a supervising caller that may set the stop flag. *)
(***************************************************************************)
InitFetch ==
    /\ mode = "none" /\ pc = "fetch_top"
    /\ should_stop = FALSE /\ probeLog = <<>> /\ connectLog = <<>> /\ fetchLog = <<>>
    /\ page = 1 /\ products = <<>> /\ raised = FALSE
    /\ raw_data = <<>> /\ processed_data = <<>> /\ exitCode = -1 /\ jsonFile = None
    /\ stageLog = <<>> /\ stopChecks = 0
    /\ CsvIdle /\ FlattenIdle /\ MongoIdle /\ ScrapeIdle

NextFetch ==
    \/ FetchCheckStop
    \/ \E resp \in ResponsesAt(page) : FetchRequest(resp)
    \/ CrawlReturn
    \/ RequestStop

SpecFetch == InitFetch /\ [][NextFetch]_vars

(***************************************************************************)
(* SpecConnect: connect() called against every server behaviour.           *)
(***************************************************************************)
InitConnect ==
    /\ mode = "none" /\ pc = "connect_call"
    /\ should_stop = FALSE /\ probeLog = <<>> /\ connectLog = <<>> /\ fetchLog = <<>>
    /\ page = 1 /\ products = <<>> /\ raised = FALSE
    /\ raw_data = <<>> /\ processed_data = <<>> /\ exitCode = -1 /\ jsonFile = None
    /\ stageLog = <<>> /\ stopChecks = 0
    /\ CsvIdle /\ FlattenIdle /\ MongoIdle /\ ScrapeIdle

Connect(resp) ==
    /\ pc = "connect_call"
    /\ Len(connectLog) < MaxProbes
    /\ ConnectCall(resp)
    /\ UNCHANGED <<stageLog, stopChecks>>
    /\ UNCHANGED <<mode, pc, should_stop, fetchLog, page, products, raised, raw_data,
                   processed_data, exitCode, jsonFile, csvVars, flattenVars, mongoVars, scrapeVars>>

NextConnect == \E resp \in Responses : Connect(resp)

SpecConnect == InitConnect /\ [][NextConnect]_vars

(***************************************************************************)
(* Claims about fetch_products, connect and the driver.                    *)
(***************************************************************************)
\* fetch_products has left its loop
FetchReturned == pc \in {"fetch_return", "extract", "save_json", "done"}

\* a request answered with a success status and a JSON object holding a
\* products array
IsValidPage(resp) ==
    resp.net = "ok" /\ resp.status \in 200..299 /\ resp.body = "products"

AllPagesValid == \A i \in 1..Len(fetchLog) : IsValidPage(fetchLog[i].resp)

\* the products of the first k requests, in request order
RECURSIVE ProductsOfPages(_)
ProductsOfPages(k) ==
    IF k = 0 THEN <<>>
    ELSE ProductsOfPages(k - 1) \o PageProducts(fetchLog[k].page, fetchLog[k].resp.n)

\* C1: against a server whose every answer is a valid products page (and
\* with the stop flag never set), the i-th request is the request for page
\* i, the session ends with the first page that holds fewer than 250
\* products, and it returns the products of all requested pages in order.
C1_PagesInOrderUntilShortPage ==
    (AllPagesValid /\ ~should_stop) =>
        /\ \A i \in 1..Len(fetchLog) : fetchLog[i].page = i
        /\ \A i \in 1..(Len(fetchLog) - 1) : fetchLog[i].resp.n >= limit
        /\ pc = "fetch_top" => products = ProductsOfPages(Len(fetchLog))
        /\ FetchReturned =>
            /\ Len(fetchLog) >= 1
            /\ fetchLog[Len(fetchLog)].resp.n < limit
            /\ products = ProductsOfPages(Len(fetchLog))
            /\ raw_data \in {<<>>, products}

\* pages of 250, 250 and 120 products: 3 requests, 620 products
C1_Witness ==
    /\ FetchReturned /\ AllPagesValid /\ ~should_stop
    /\ Len(fetchLog) = 3
    /\ <<fetchLog[1].resp.n, fetchLog[2].resp.n, fetchLog[3].resp.n>> = <<250, 250, 120>>
    /\ Len(products) = 620
    /\ products[251] = 251 /\ products[620] = 620

\* an empty first page: 1 request, 0 products
C1_WitnessEmptyFirstPage ==
    /\ FetchReturned /\ AllPagesValid /\ ~should_stop
    /\ Len(fetchLog) = 1 /\ fetchLog[1].resp.n = 0 /\ products = <<>>

\* a failed page request in the sense of the claim: network error, timeout,
\* non-2xx status, malformed JSON, a body that is not an object, or an
\* object without the products key
IsFailedRequest(resp) ==
    \/ resp.net # "ok"
    \/ resp.status \notin 200..299
    \/ ~JsonParses(resp.body)
    \/ ~IsJsonObject(resp.body)
    \/ ~HasProductsKey(resp.body)

\* C2: a failed request for page k is the last request of the session (no
\* retry, no further page), the session does not raise, and it returns the
\* products of pages 1..k-1.
C2_FailedPageEndsSession ==
    \A k \in 1..Len(fetchLog) :
        IsFailedRequest(fetchLog[k].resp) =>
            /\ k = Len(fetchLog)
            /\ ~raised
            /\ pc # "fetch_top"
            /\ products = ProductsOfPages(k - 1)

\* C3: connect() issues one GET per call, never raises, and returns True
\* exactly when the status is 200 and the body parses as a JSON object that
\* has the products key.
C3_ConnectIffValidProbe ==
    /\ Len(probeLog) = Len(connectLog)
    /\ ~raised
    /\ \A i \in 1..Len(connectLog) :
        connectLog[i] \in BOOLEAN
        /\ (connectLog[i] <=>
              /\ probeLog[i].net = "ok"
              /\ probeLog[i].status = 200
              /\ JsonParses(probeLog[i].body)
              /\ IsJsonObject(probeLog[i].body)
              /\ HasProductsKey(probeLog[i].body))

\* a probe that succeeded and a probe refused for its status alone
C3_Witness ==
    /\ pc = "connect_call"
    /\ Len(connectLog) = 2
    /\ connectLog[1] = TRUE
    /\ connectLog[2] = FALSE /\ probeLog[2].status = 201 /\ probeLog[2].body = "products"

\* C4: once a connect() has returned False, no page request is issued.
C4_NoFetchAfterFailedProbe ==
    (\E i \in 1..Len(connectLog) : connectLog[i] = FALSE) => fetchLog = <<>>

(***************************************************************************)
(* SpecCsv: save_to_csv called again and again on one file that does not   *)
(* exist at first.                                                         *)
(***************************************************************************)
CsvRows == {VariantRow(ProductTwoVariants, VariantA, StoreDomain),
            NoVariantRow(ProductEmptyVariants, StoreDomain)}

InitCsv ==
    /\ pc = "csv_call" /\ raised = FALSE
    /\ csvFile = None /\ csvCalls = <<>> /\ writers = <<>>
    /\ DriverIdle /\ FlattenIdle /\ MongoIdle /\ ScrapeIdle

SaveToCsv(data, io) ==
    /\ pc = "csv_call"
    /\ Len(csvCalls) < MaxCalls
    /\ SaveToCsvCall(data, io)
    /\ UNCHANGED <<pc, raised, driverVars, flattenVars, mongoVars, scrapeVars>>

NextCsv == \E data \in SeqsUpTo(CsvRows, MaxRows), io \in IoOutcomes : SaveToCsv(data, io)

SpecCsv == InitCsv /\ [][NextCsv]_vars

\* the rows of the calls that wrote, in call order
RECURSIVE RowsWritten(_)
RowsWritten(calls) ==
    IF calls = <<>> THEN <<>>
    ELSE RowsWritten(SubSeq(calls, 1, Len(calls) - 1))
         \o (IF calls[Len(calls)].io = "ok" THEN calls[Len(calls)].data ELSE <<>>)

\* C7: after any sequence of save_to_csv calls on a file that did not exist,
\* the file is one header line followed by the rows of all calls in call
\* order (a call stopped by an I/O error adds nothing, and until a call has
\* written the file is absent or empty).
C7_HeaderOnceThenRows ==
    IF \E i \in 1..Len(csvCalls) : csvCalls[i].io = "ok"
    THEN csvFile = Some(<<HeaderLine>> \o RowLines(RowsWritten(csvCalls)))
    ELSE csvFile \in {None, Some(<<>>)}

\* two successive calls that both wrote rows
C7_Witness ==
    /\ pc = "csv_call"
    /\ Len(csvCalls) = 2
    /\ \A i \in 1..2 : csvCalls[i].io = "ok" /\ Len(csvCalls[i].data) >= 1
    /\ csvFile # None
    /\ Len(csvFile[1]) = 1 + Len(csvCalls[1].data) + Len(csvCalls[2].data)
    /\ csvFile[1][1] = HeaderLine

(***************************************************************************)
(* The document sink (shopify_api_agent.py 40-98).  Every agent writes to  *)
(* the one collection shopify_scraper.products; a document is              *)
(* [_id, id, store_url, title, scraped_at], title standing for the fields  *)
(* a product may or may not carry.                                         *)
(***************************************************************************)
StoreUrls == {"https://a.example", "https://b.example"}

MongoProducts == [id : {Some(1), Some(2), None}, title : {None, Some("old"), Some("new")}]

\* create_index('id', unique=True): no two documents with the same id
ViolatesUniqueIndex(coll, doc) == \E d \in coll : d.id = doc.id

\* update_one({'id': ..., 'store_url': ...}, {'$set': product}, upsert=True).
\* product already carries scraped_at and store_url.  Returns the new
\* collection and whether the call returned (ok) or raised DuplicateKeyError
update_one(coll, store_url, product, now) ==
    LET matches == {d \in coll : d.id = product.id /\ d.store_url = store_url}
    IN  IF matches # {}
        THEN LET d   == CHOOSE x \in matches : \A y \in matches : x._id <= y._id
                 upd == [d EXCEPT !.title = IF product.title # None THEN product.title ELSE @,
                                  !.scraped_at = now]
             IN  [coll |-> (coll \ {d}) \cup {upd}, ok |-> TRUE]
        ELSE LET doc == [_id |-> now, id |-> product.id, store_url |-> store_url,
                         title |-> product.title, scraped_at |-> now]
             IN  IF ViolatesUniqueIndex(coll, doc)
                 THEN [coll |-> coll, ok |-> FALSE]
                 ELSE [coll |-> coll \cup {doc}, ok |-> TRUE]

\* store_product_in_mongodb, called by the agent of store_url: True when the
\* upsert went through, False when anything raised (product['id'] on a
\* product without id, DuplicateKeyError)
store_product_in_mongodb(coll, store_url, product, now) ==
    IF product.id = None THEN [coll |-> coll, ok |-> FALSE]
    ELSE update_one(coll, store_url, product, now)

\* a loop that gives up at the first record whose write failed
RECURSIVE StoreRangeUntilFailure(_, _, _, _, _, _)
StoreRangeUntilFailure(coll, store_url, prods, lo, hi, now) ==
    IF lo > hi THEN [coll |-> coll, oks |-> <<>>]
    ELSE LET r == store_product_in_mongodb(coll, store_url, prods[lo], now + lo)
         IN  IF ~r.ok THEN [coll |-> r.coll, oks |-> <<FALSE>>]
             ELSE LET rest == StoreRangeUntilFailure(r.coll, store_url, prods, lo + 1, hi, now)
                  IN  [coll |-> rest.coll, oks |-> <<TRUE>> \o rest.oks]

\* the loop of store_products_in_mongodb over prods[lo..hi], in order: the
\* collection after the writes and the result of each write
RECURSIVE StoreRange(_, _, _, _, _, _)
StoreRange(coll, store_url, prods, lo, hi, now) ==
    IF lo > hi THEN [coll |-> coll, oks |-> <<>>]
    ELSE IF lo = hi
         THEN LET r == store_product_in_mongodb(coll, store_url, prods[lo], now + lo)
              IN  [coll |-> r.coll, oks |-> <<r.ok>>]
    ELSE LET mid == (lo + hi) \div 2
             l   == StoreRange(coll, store_url, prods, lo, mid, now)
         IN  \* the writes of prods[lo..mid] are done before the next one starts
             IF Len(l.oks) # mid - lo + 1 THEN l
             ELSE LET r == StoreRange(l.coll, store_url, prods, mid + 1, hi, now)
                  IN  [coll |-> r.coll, oks |-> l.oks \o r.oks]

\* store_products_in_mongodb (shopify_api_agent.py 100-106): success_count
\* counts the writes that returned True
store_products_in_mongodb(coll, store_url, prods, now) ==
    LET r == StoreRange(coll, store_url, prods, 1, Len(prods), now)
    IN  [coll |-> r.coll, oks |-> r.oks,
         success_count |-> Cardinality({i \in 1..Len(r.oks) : r.oks[i]})]

\* one call of store_products_in_mongodb by the agent of store_url
StoreProductsCall(store_url, prods) ==
    LET r == store_products_in_mongodb(collection, store_url, prods, clock)
    IN  /\ collection' = r.coll
        /\ clock' = clock + Len(prods)
        /\ writes' = writes \o [i \in 1..Len(r.oks) |->
                                  [store_url |-> store_url, product |-> prods[i],
                                   ok |-> r.oks[i], at |-> clock + i]]
        /\ batchCalls' = Append(batchCalls,
                                [store_url |-> store_url, products |-> prods,
                                 first |-> Len(writes), last |-> Len(writes) + Len(r.oks),
                                 count |-> r.success_count])

InitMongo ==
    /\ pc = "mongo_call" /\ raised = FALSE
    /\ collection = {} /\ writes = <<>> /\ clock = 0 /\ batchCalls = <<>>
    /\ DriverIdle /\ CsvIdle /\ FlattenIdle /\ ScrapeIdle

StoreProduct(store_url, product) ==
    /\ pc = "mongo_call"
    /\ clock < MaxWrites
    /\ clock' = clock + 1
    /\ LET r == store_product_in_mongodb(collection, store_url, product, clock + 1)
       IN  /\ collection' = r.coll
           /\ writes' = Append(writes, [store_url |-> store_url, product |-> product,
                                        ok |-> r.ok, at |-> clock + 1])
    /\ UNCHANGED <<pc, raised, batchCalls, driverVars, csvVars, flattenVars, scrapeVars>>

StoreProducts(store_url, prods) ==
    /\ pc = "mongo_call"
    /\ clock + Len(prods) <= MaxWrites
    /\ Len(batchCalls) < MaxBatchCalls
    /\ StoreProductsCall(store_url, prods)
    /\ UNCHANGED <<pc, raised, driverVars, csvVars, flattenVars, scrapeVars>>

NextMongo == \E store_url \in StoreUrls, product \in MongoProducts : StoreProduct(store_url, product)

SpecMongo == InitMongo /\ [][NextMongo]_vars

\* the records of a batch: with or without an id, with or without a title
BatchProducts == {p \in MongoProducts : p.title # Some("old")}

\* the document sink written batch by batch, by the agents of both stores
NextMongoBatch ==
    \E store_url \in StoreUrls, prods \in SeqsUpTo(BatchProducts, MaxWrites) :
        StoreProducts(store_url, prods)

SpecMongoBatch == InitMongo /\ [][NextMongoBatch]_vars

RecordsFor(id, store_url) == {d \in collection : d.id = id /\ d.store_url = store_url}

WritesOf(id, store_url) ==
    {i \in 1..Len(writes) : writes[i].product.id = id /\ writes[i].store_url = store_url}

Max(S) == CHOOSE x \in S : \A y \in S : y <= x

\* C5: after one store has written products with one id any number of
\* times (twice, say), the collection holds exactly one record for that
\* (id, store_url), and every field the last write carried has the last
\* write's value.
C5_UpsertIdempotent ==
    \A store_url \in StoreUrls, id \in {Some(1), Some(2)} :
        WritesOf(id, store_url) # {} =>
            /\ Cardinality(RecordsFor(id, store_url)) = 1
            /\ LET last == writes[Max(WritesOf(id, store_url))]
               IN  \A d \in RecordsFor(id, store_url) :
                    /\ d.scraped_at = last.at
                    /\ last.product.title # None => d.title = last.product.title

\* C6: records are keyed by (id, store_url): every write of a product that
\* has an id succeeds, and the collection holds exactly one record for each
\* (id, store_url) pair written, so one id written by two stores is two
\* records.
C6_KeyedByIdAndStore ==
    /\ \A i \in 1..Len(writes) : writes[i].product.id # None => writes[i].ok
    /\ \A store_url \in StoreUrls, id \in {Some(1), Some(2)} :
        Cardinality(RecordsFor(id, store_url)) =
            (IF WritesOf(id, store_url) # {} THEN 1 ELSE 0)

\* C11: store_products_in_mongodb attempts every record of the batch once,
\* in order, whatever the earlier writes did, never raises, and returns the
\* number of writes that succeeded (the batch size less one per failure).
C11_BatchWritesAllAndCounts ==
    /\ ~raised
    /\ \A c \in 1..Len(batchCalls) :
        LET call == batchCalls[c]
            n    == Len(call.products)
        IN  /\ call.last = call.first + n
            /\ call.last <= Len(writes)
            /\ \A i \in 1..n :
                /\ writes[call.first + i].product = call.products[i]
                /\ writes[call.first + i].store_url = call.store_url
            /\ call.count = n - Cardinality({i \in 1..n : ~writes[call.first + i].ok})

\* a batch of three whose second write failed and whose third succeeded
C11_Witness ==
    \E c \in 1..Len(batchCalls) :
        LET call == batchCalls[c]
        IN  /\ Len(call.products) = 3
            /\ writes[call.first + 1].ok
            /\ ~writes[call.first + 2].ok
            /\ writes[call.first + 3].ok
            /\ call.count = 2

\* C12: when the request for the first page fails, the run of the pipeline
\* ends in failure: BaseAgent.run raises, and main exits with a non-zero
\* code, instead of flattening, persisting and reporting success.
C12_FirstPageFailureFailsRun ==
    (/\ pc = "done"
     /\ fetchLog # <<>>
     /\ IsFailedRequest(fetchLog[1].resp))
    => /\ raised
       /\ jsonFile = None
       /\ mode = "main" => exitCode = 1

\* the products of the logged answers that fetch_products took as pages
RECURSIVE AccumulatedOf(_)
AccumulatedOf(log) ==
    IF log = <<>> THEN <<>>
    ELSE LET e == log[Len(log)]
         IN  AccumulatedOf(SubSeq(log, 1, Len(log) - 1)) \o
             (IF FetchOutcome(e.resp) \in {"last", "more"}
              THEN PageProducts(e.page, e.resp.n) ELSE <<>>)

\* the flag is read once in every iteration, before the request
StopReadOncePerIteration ==
    /\ pc = "fetch_top" => stopChecks = Len(fetchLog)
    /\ pc = "fetch_request" => stopChecks = Len(fetchLog) + 1 /\ ~raised
    /\ Len(fetchLog) <= stopChecks /\ stopChecks <= Len(fetchLog) + 1

\* with the flag set, only the request of the iteration under way is issued
NoRequestInLaterIteration ==
    (should_stop /\ pc # "fetch_request") => (fetchLog' = fetchLog /\ pc' # "fetch_request")

\* a stopped session returns what it has accumulated and does not raise
StoppedReturnsAccumulated ==
    (should_stop /\ FetchReturned) => (~raised /\ products = AccumulatedOf(fetchLog))

\* C13: fetch_products reads the stop flag exactly once per iteration,
\* before the request of the iteration; once the flag is set no later
\* iteration issues a request (the one in flight may complete), and the
\* session returns the products accumulated so far without raising.
C13_CooperativeStop ==
    /\ [](StopReadOncePerIteration /\ StoppedReturnsAccumulated)
    /\ [][NoRequestInLaterIteration]_vars

\* a session stopped by the flag after a full page, with more to fetch
C13_Witness ==
    /\ should_stop /\ FetchReturned
    /\ fetchLog # <<>>
    /\ FetchOutcome(fetchLog[Len(fetchLog)].resp) = "more"
    /\ Len(products) >= limit

\* C14: a file sink whose destination cannot be opened for writing fails the
\* run: the error of save_to_csv (called from extract_data) and the error
\* of save_json both reach the driver, so BaseAgent.run raises and main
\* exits with a non-zero code.
C14_UnwritableSinkFailsRun ==
    (/\ pc = "done"
     /\ \/ \E i \in 1..Len(csvCalls) : csvCalls[i].io = "open_fails"
        \/ jsonFile = None)
    => /\ raised
       /\ mode = "main" => exitCode = 1

\* the stages of the pipeline in the order of BaseAgent.run
Stages == <<"connect", "crawl", "extract_data", "save_json">>

\* C15: in one execution of main(), the stages connect, crawl, extract_data
\* and save are entered in this order and each is executed exactly once: no
\* stage is entered twice.
C15_StagesOnceInOrder ==
    mode = "main" =>
        /\ Len(stageLog) <= Len(Stages)
        /\ stageLog = SubSeq(Stages, 1, Len(stageLog))
        /\ pc = "done" => stageLog = Stages

(***************************************************************************)
(* SpecCsvConcurrent: two pipelines call save_to_csv at the same time on   *)
(* one file that does not exist at first.  A call is the steps of          *)
(* shopify_api_agent.py 394-399: isfile, open for appending, the header    *)
(* decision and the writes into the buffer of the file object, and the     *)
(* flushes of that buffer, the last of them when the with block closes the *)
(* file.  Appended lines land at the end of the file.                      *)
(***************************************************************************)
Writers == 1..2

InitCsvConcurrent ==
    /\ pc = "csv_concurrent" /\ raised = FALSE
    /\ csvFile = None /\ csvCalls = <<>>
    /\ writers \in [Writers -> {[pc |-> "isfile", file_exists |-> FALSE, data |-> d, buf |-> <<>>] :
                                    d \in SeqsUpTo(CsvRows, MaxRows)}]
    /\ DriverIdle /\ FlattenIdle /\ MongoIdle /\ ScrapeIdle

\* file_exists = os.path.isfile(filename)
CsvIsFile(w) ==
    /\ pc = "csv_concurrent"
    /\ writers[w].pc = "isfile"
    /\ writers' = [writers EXCEPT ![w].file_exists = (csvFile # None), ![w].pc = "open"]
    /\ UNCHANGED csvFile
    /\ UNCHANGED <<pc, raised, csvCalls, driverVars, flattenVars, mongoVars, scrapeVars>>

\* open(filename, 'a'): creates the file when it is missing
CsvOpen(w) ==
    /\ pc = "csv_concurrent"
    /\ writers[w].pc = "open"
    /\ csvFile' = Some(Get(csvFile, <<>>))
    /\ writers' = [writers EXCEPT ![w].pc = "header"]
    /\ UNCHANGED <<pc, raised, csvCalls, driverVars, flattenVars, mongoVars, scrapeVars>>

\* if not file_exists or os.path.getsize(filename) == 0: writeheader();
\* writerows(data): header and rows go to the buffer of the file object
CsvWriteRows(w) ==
    /\ pc = "csv_concurrent"
    /\ writers[w].pc = "header"
    /\ writers' = [writers EXCEPT
                     ![w].buf = (IF ~writers[w].file_exists \/ Len(Get(csvFile, <<>>)) = 0
                                 THEN <<HeaderLine>> ELSE <<>>) \o RowLines(writers[w].data),
                     ![w].pc = "write"]
    /\ UNCHANGED csvFile
    /\ UNCHANGED <<pc, raised, csvCalls, driverVars, flattenVars, mongoVars, scrapeVars>>

\* the buffer is flushed in part before the file is closed
CsvFlush(w, k) ==
    /\ pc = "csv_concurrent"
    /\ writers[w].pc = "write"
    /\ k \in 1..(Len(writers[w].buf) - 1)
    /\ csvFile' = Some(Get(csvFile, <<>>) \o SubSeq(writers[w].buf, 1, k))
    /\ writers' = [writers EXCEPT ![w].buf = SubSeq(writers[w].buf, k + 1, Len(writers[w].buf))]
    /\ UNCHANGED <<pc, raised, csvCalls, driverVars, flattenVars, mongoVars, scrapeVars>>

\* the end of the with block: the rest of the buffer is flushed
CsvClose(w) ==
    /\ pc = "csv_concurrent"
    /\ writers[w].pc = "write"
    /\ csvFile' = Some(Get(csvFile, <<>>) \o writers[w].buf)
    /\ writers' = [writers EXCEPT ![w].buf = <<>>, ![w].pc = "done"]
    /\ UNCHANGED <<pc, raised, csvCalls, driverVars, flattenVars, mongoVars, scrapeVars>>

NextCsvConcurrent ==
    \/ \E w \in Writers : CsvIsFile(w)
    \/ \E w \in Writers : CsvOpen(w)
    \/ \E w \in Writers : CsvWriteRows(w)
    \/ \E w \in Writers, k \in 1..MaxRows : CsvFlush(w, k)
    \/ \E w \in Writers : CsvClose(w)

SpecCsvConcurrent == InitCsvConcurrent /\ [][NextCsvConcurrent]_vars

\* a call is between its existence check and the close of the file
InAppend(w) == writers[w].pc \in {"open", "header", "write"}

\* C16: two save_to_csv calls running at the same time on one file that does
\* not exist at first never overlap between the existence check and the
\* write, so the file they leave has exactly one header line, the first.
C16_ConcurrentAppendsExclusive ==
    pc = "csv_concurrent" =>
        /\ \A v, w \in Writers : (InAppend(v) /\ InAppend(w)) => v = w
        /\ (\A w \in Writers : writers[w].pc = "done") =>
              LET lines == Get(csvFile, <<>>)
              IN  /\ lines # <<>> /\ lines[1] = HeaderLine
                  /\ Cardinality({i \in 1..Len(lines) : lines[i] = HeaderLine}) = 1

\* every answer so far is the answer of a catalogue of m full pages: 250
\* products for the pages up to m, an empty page after them
CatalogueOfFullPages(m) ==
    /\ AllPagesValid
    /\ \A i \in 1..Len(fetchLog) :
          fetchLog[i].resp.n = (IF fetchLog[i].page <= m THEN limit ELSE 0)

\* C17: when the catalogue is m >= 1 full pages of 250 products and nothing
\* more, fetch_products issues exactly m + 1 requests, the last of them
\* answered by an empty page, and returns the 250 * m products, each once.
C17_FullLastPage ==
    \A m \in 1..MaxFullPages :
        (CatalogueOfFullPages(m) /\ ~should_stop) =>
            /\ Len(fetchLog) <= m + 1
            /\ \A i \in 1..Len(fetchLog) : fetchLog[i].page = i
            /\ Len(fetchLog) <= m => ~FetchReturned
            /\ FetchReturned =>
                /\ Len(fetchLog) = m + 1
                /\ fetchLog[m + 1].resp.n = 0
                /\ ~raised
                /\ Len(products) = limit * m
                /\ \A i \in 1..(limit * m) : products[i] = i

\* two full pages and an empty third one: 3 requests, 500 products
C17_Witness ==
    /\ FetchReturned /\ ~should_stop /\ CatalogueOfFullPages(2)
    /\ Len(fetchLog) = 3
    /\ fetchLog[3].resp.n = 0
    /\ Len(products) = 500

(***************************************************************************)
(* scrape_products (shopify_api_agent.py 133-187), the fetch variant that  *)
(* stores every page in MongoDB.  The local count is always                *)
(* len(products): both grow by the page, in the same branch.               *)
(***************************************************************************)
ScrapeLimits == {None, Some(0), Some(1), Some(limit), Some(limit + 1)}

\* the answers of the store to the page requests of scrape_products
ScrapeResponses ==
    {r \in Responses : r.status \in {0, 200, 500} /\ r.n \in {0, 120, limit}}

ScrapeResponsesAt(pg) == ResponsesAt(pg) \cap ScrapeResponses

\* the agent of this store, and the record of a catalogue position as the
\* document sink sees it
ScrapeStore == "https://a.example"
ScrapeProductOf(id) == [id |-> Some(id), title |-> Some("new")]

\* a loop that goes on whatever the limit
ScrapeContinuesIgnoringLimit(has_next, lim, count) == has_next

\* while has_next_page and (limit is None or count < limit)
ScrapeContinues(has_next, lim, count) ==
    has_next /\ (IF lim = None THEN TRUE ELSE count < lim[1])

\* what one request does to the loop.  response.json() on a body that is
\* not JSON raises requests' JSONDecodeError, a RequestException, or with
\* an older requests a plain ValueError: json_error_caught says which.
\* "error" (except RequestException, break), "raise" (an exception that no
\* clause catches: data.get on a body that is not an object), "empty"
\* (no products: has_next_page = False), "last" or "more"
ScrapeOutcome(resp, json_error_caught) ==
    IF resp.net # "ok" THEN "error"
    ELSE IF raise_for_status(resp) THEN "error"
    ELSE IF ~JsonParses(resp.body) THEN (IF json_error_caught THEN "error" ELSE "raise")
    ELSE IF ~IsJsonObject(resp.body) THEN "raise"
    ELSE IF ~HasProductsKey(resp.body) \/ resp.n = 0 THEN "empty"
    ELSE IF resp.n < 250 THEN "last"
    ELSE "more"

\* the installed requests decides what response.json() raises; the choice
\* shows only when the body is not JSON
JsonErrorCaught(resp) ==
    IF resp.net = "ok" /\ ~raise_for_status(resp) /\ ~JsonParses(resp.body)
    THEN BOOLEAN ELSE {TRUE}

\* the call: products = [], page = 1, has_next_page = True, count = 0
ScrapeCall(lim) ==
    /\ pc = "scrape_call"
    /\ scrapeLimit' = lim
    /\ scrapeLog' = <<>> /\ scrapePage' = 1 /\ scrapeProducts' = <<>> /\ has_next_page' = TRUE
    /\ pc' = "scrape_top"
    /\ UNCHANGED <<raised, driverVars, csvVars, flattenVars, mongoVars>>

\* one iteration of the while loop
ScrapeIter(resp, json_error_caught) ==
    /\ pc = "scrape_top"
    /\ ScrapeContinues(has_next_page, scrapeLimit, Len(scrapeProducts))
    /\ scrapeLog' = Append(scrapeLog, [page |-> scrapePage, resp |-> resp,
                                       count |-> Len(scrapeProducts)])
    /\ LET o == ScrapeOutcome(resp, json_error_caught)
           batch_products == PageProducts(scrapePage, resp.n)
       IN  /\ IF o \in {"last", "more"}
              THEN /\ StoreProductsCall(ScrapeStore,
                         [i \in 1..Len(batch_products) |-> ScrapeProductOf(batch_products[i])])
                   /\ scrapeProducts' = scrapeProducts \o batch_products
              ELSE UNCHANGED <<mongoVars, scrapeProducts>>
           /\ has_next_page' = IF o \in {"empty", "last"} THEN FALSE ELSE has_next_page
           /\ scrapePage' = IF o = "more" THEN scrapePage + 1 ELSE scrapePage
           /\ raised' = (o = "raise")
           /\ pc' = CASE o = "raise" -> "scrape_raised"
                      [] o = "error" -> "scrape_done"
                      [] OTHER       -> "scrape_top"
    /\ UNCHANGED <<scrapeLimit, driverVars, csvVars, flattenVars>>

\* the loop condition is false: return products
ScrapeReturn ==
    /\ pc = "scrape_top"
    /\ ~ScrapeContinues(has_next_page, scrapeLimit, Len(scrapeProducts))
    /\ pc' = "scrape_done"
    /\ UNCHANGED <<raised, driverVars, csvVars, flattenVars, mongoVars, scrapeVars>>

InitScrape ==
    /\ pc = "scrape_call" /\ raised = FALSE
    /\ DriverIdle /\ CsvIdle /\ FlattenIdle /\ MongoIdle /\ ScrapeIdle

NextScrape ==
    \/ \E lim \in ScrapeLimits : ScrapeCall(lim)
    \/ \E resp \in ScrapeResponsesAt(scrapePage) :
            \E c \in JsonErrorCaught(resp) : ScrapeIter(resp, c)
    \/ ScrapeReturn

SpecScrape == InitScrape /\ [][NextScrape]_vars

\* the products of the logged answers that scrape_products took as pages,
\* every page whole
RECURSIVE ScrapeAccumulated(_)
ScrapeAccumulated(log) ==
    IF log = <<>> THEN <<>>
    ELSE LET e == log[Len(log)]
         IN  ScrapeAccumulated(SubSeq(log, 1, Len(log) - 1)) \o
             (IF e.resp.net = "ok" /\ ~raise_for_status(e.resp) /\ e.resp.body = "products"
              THEN PageProducts(e.page, e.resp.n) ELSE <<>>)

\* C19: scrape_products(limit=n) looks at the limit only between pages: it
\* issues no request once it has n products or more and keeps every page
\* whole, so for n >= 1 it returns, and has stored, fewer than n + 250
\* products (possibly more than n); for n = 0 it issues no request and
\* returns nothing.
C19_LimitCheckedBetweenPages ==
    scrapeLimit # None =>
        LET n == scrapeLimit[1]
        IN  /\ \A i \in 1..Len(scrapeLog) : scrapeLog[i].count < n
            /\ scrapeProducts = ScrapeAccumulated(scrapeLog)
            /\ n >= 1 => Len(scrapeProducts) < n + 250
            /\ n = 0 => scrapeLog = <<>> /\ scrapeProducts = <<>>
            /\ Len(writes) = Len(scrapeProducts)
            /\ \A i \in 1..Len(writes) :
                  writes[i].ok /\ writes[i].product = ScrapeProductOf(scrapeProducts[i])
            /\ Cardinality(collection) = Len(scrapeProducts)

\* limit 251: the second page is requested with 250 products in hand, and
\* 500 are returned
C19_Witness ==
    /\ pc = "scrape_done"
    /\ scrapeLimit = Some(limit + 1)
    /\ Len(scrapeLog) = 2
    /\ Len(scrapeProducts) = 2 * limit
    /\ Cardinality(collection) = 2 * limit

\* limit 0: the call returns at once
C19_WitnessZero ==
    /\ pc = "scrape_done"
    /\ scrapeLimit = Some(0)
    /\ scrapeLog = <<>> /\ scrapeProducts = <<>>

(***************************************************************************)
(* SpecVariants: scrape_products(limit=None), then fetch_products, against *)
(* one server: a page that the first session requested is answered to the  *)
(* second as it was to the first.  The stop flag is never set.             *)
(***************************************************************************)
ServedAt(pg) ==
    LET seen == {i \in 1..Len(scrapeLog) : scrapeLog[i].page = pg}
    IN  IF seen # {} THEN {scrapeLog[i].resp : i \in seen}
        ELSE ScrapeResponsesAt(pg)

\* the call of fetch_products: products = [], page = 1
FetchCall ==
    /\ pc = "scrape_done"
    /\ page' = 1 /\ products' = <<>>
    /\ pc' = "fetch_top"
    /\ UNCHANGED <<mode, should_stop, probeLog, connectLog, fetchLog, raised, raw_data,
                   processed_data, exitCode, jsonFile, stageLog, stopChecks,
                   csvVars, flattenVars, mongoVars, scrapeVars>>

NextVariants ==
    \/ ScrapeCall(None)
    \/ \E resp \in ScrapeResponsesAt(scrapePage) :
            \E c \in JsonErrorCaught(resp) : ScrapeIter(resp, c)
    \/ ScrapeReturn
    \/ FetchCall
    \/ FetchCheckStop
    \/ \E resp \in ServedAt(page) : FetchRequest(resp)

SpecVariants == InitScrape /\ [][NextVariants]_vars

\* the page numbers of a request log, in order
PagesOf(log) == [i \in 1..Len(log) |-> log[i].page]

\* C18: run against the same server, with no limit and the stop flag never
\* set, scrape_products requests the same pages in the same order as
\* fetch_products and returns the same products, and neither raises.
C18_VariantsEquivalent ==
    /\ ~raised
    /\ pc = "fetch_return" =>
        /\ PagesOf(scrapeLog) = PagesOf(fetchLog)
        /\ scrapeProducts = products

====
